---------------------------- MODULE Spec2Model ----------------------------
(***************************************************************************)
(* CropPilot: the scheme eligibility and priority-scoring engine of        *)
(* src/app.py (normalize_crop, normalize_disaster, find_eligible_schemes)  *)
(* and the request handler disaster_result that calls it.                  *)
(*                                                                         *)
(* Python values are modelled as follows.  A str is a TLA+ string; a dict  *)
(* is a function whose DOMAIN is the set of keys that are present (a       *)
(* record), read with Get as dict.get reads it; a module-level dict whose  *)
(* iteration order matters is a sequence of <<key, value>> pairs in the    *)
(* order of the dict literal; a list is a sequence; None is the value      *)
(* None.  Land sizes are whole hectares.                                   *)
(***************************************************************************)
EXTENDS Integers, Sequences, FiniteSets, TLC

(***************************************************************************)
(* str methods                                                             *)
(***************************************************************************)
None == "<None>"

ASCII_UPPERCASE == "ABCDEFGHIJKLMNOPQRSTUVWXYZ"
ASCII_LOWERCASE == "abcdefghijklmnopqrstuvwxyz"
WHITESPACE == {" ", "\t", "\n", "\r"}

CharAt(s, i) == SubSeq(s, i, i)

\* 1-based position of the one-character string c in alphabet, 0 when absent
IndexOf(c, alphabet) ==
  IF \E i \in 1..Len(alphabet) : CharAt(alphabet, i) = c
  THEN CHOOSE i \in 1..Len(alphabet) : CharAt(alphabet, i) = c
  ELSE 0

\* the lower-case letter of each upper-case one, and the reverse
TO_LOWER ==
  [c \in {CharAt(ASCII_UPPERCASE, i) : i \in 1..26} |->
     CharAt(ASCII_LOWERCASE, IndexOf(c, ASCII_UPPERCASE))]

TO_UPPER ==
  [c \in {CharAt(ASCII_LOWERCASE, i) : i \in 1..26} |->
     CharAt(ASCII_UPPERCASE, IndexOf(c, ASCII_LOWERCASE))]

LowerChar(c) == IF c \in DOMAIN TO_LOWER THEN TO_LOWER[c] ELSE c

UpperChar(c) == IF c \in DOMAIN TO_UPPER THEN TO_UPPER[c] ELSE c

IsCased(c) == c \in DOMAIN TO_LOWER \/ c \in DOMAIN TO_UPPER

\* the string left in the case it came in
str_lower_skipped(s) == s

\* str.lower()
RECURSIVE str_lower(_)
str_lower(s) ==
  IF Len(s) = 0 THEN "" ELSE LowerChar(CharAt(s, 1)) \o str_lower(SubSeq(s, 2, Len(s)))

\* str.title(): a cased character is upper-cased when it follows an uncased
\* one (or starts the string) and lower-cased otherwise
RECURSIVE TitleFrom(_, _)
TitleFrom(s, prev_cased) ==
  IF Len(s) = 0 THEN ""
  ELSE LET c == CharAt(s, 1)
       IN (IF prev_cased THEN LowerChar(c) ELSE UpperChar(c))
            \o TitleFrom(SubSeq(s, 2, Len(s)), IsCased(c))

\* the string left as typed
str_title_skipped(s) == s

str_title(s) == TitleFrom(s, FALSE)

\* str.strip()
RECURSIVE str_lstrip(_)
str_lstrip(s) ==
  IF Len(s) > 0 /\ CharAt(s, 1) \in WHITESPACE THEN str_lstrip(SubSeq(s, 2, Len(s))) ELSE s

RECURSIVE str_rstrip(_)
str_rstrip(s) ==
  IF Len(s) > 0 /\ CharAt(s, Len(s)) \in WHITESPACE
  THEN str_rstrip(SubSeq(s, 1, Len(s) - 1)) ELSE s

\* the blanks left around the string
str_strip_skipped(s) == s

str_strip(s) == str_rstrip(str_lstrip(s))

\* the string with nothing replaced
str_replace_skipped(s, old, new) == s

\* str.replace(old, new) for a one-character old
RECURSIVE str_replace(_, _, _)
str_replace(s, old, new) ==
  IF Len(s) = 0 THEN ""
  ELSE (IF CharAt(s, 1) = old THEN new ELSE CharAt(s, 1))
         \o str_replace(SubSeq(s, 2, Len(s)), old, new)

\* sub in s, for two strings
str_in(sub, s) ==
  \E i \in 1..(Len(s) - Len(sub) + 1) : SubSeq(s, i, i + Len(sub) - 1) = sub

\* s[:n]
str_prefix(s, n) == SubSeq(s, 1, IF Len(s) < n THEN Len(s) ELSE n)

(***************************************************************************)
(* dict and list helpers                                                   *)
(***************************************************************************)
\* dict.get(key, default) on a dict modelled as a record
Get(d, key, default) == IF key \in DOMAIN d THEN d[key] ELSE default

\* key in d, d[key] on a dict modelled as a sequence of pairs
HasKey(d, key) == \E i \in DOMAIN d : d[i][1] = key
Lookup(d, key) == d[CHOOSE i \in DOMAIN d : d[i][1] = key][2]
LookupOr(d, key, default) == IF HasKey(d, key) THEN Lookup(d, key) ELSE default

\* x in list
InList(x, list) == \E i \in DOMAIN list : list[i] = x

\* the list compared as the catalog spells it
LowerAll_skipped(list) == list

\* [f(x) for x in list] with f = str.lower
LowerAll(list) == [i \in DOMAIN list |-> str_lower(list[i])]

\* the least index of a sequence that satisfies P, 0 when none does
FirstIndex(list, P(_)) ==
  IF \E i \in DOMAIN list : P(list[i])
  THEN CHOOSE i \in DOMAIN list : P(list[i]) /\ \A j \in 1..(i - 1) : ~P(list[j])
  ELSE 0

CROP_CATEGORIES ==
  <<
    <<"cereals", <<"Rice", "Wheat", "Maize", "Barley", "Millets", "Ragi", "Jowar", "Bajra", "Sorghum">>>>,
    <<"grains", <<"Rice", "Wheat", "Maize", "Barley", "Millets", "Ragi", "Jowar", "Bajra", "Sorghum">>>>,
    <<"pulses", <<"Chickpea", "Lentils", "Pigeon Pea", "Peas", "Moong", "Urad", "Masoor">>>>,
    <<"dals", <<"Chickpea", "Lentils", "Pigeon Pea", "Peas", "Moong", "Urad", "Masoor">>>>,
    <<"oilseeds", <<"Groundnut", "Mustard", "Sunflower", "Soybean", "Sesame", "Castor">>>>,
    <<"vegetables", <<"Potato", "Onion", "Tomato", "Brinjal", "Cabbage", "Cauliflower", "Chilli", "Garlic", "Ginger">>>>,
    <<"sabzi", <<"Potato", "Onion", "Tomato", "Brinjal", "Cabbage", "Cauliflower", "Chilli", "Garlic", "Ginger">>>>,
    <<"fruits", <<"Banana", "Mango", "Papaya", "Watermelon", "Muskmelon", "Cucumber", "Grapes", "Orange", "Apple">>>>,
    <<"phal", <<"Banana", "Mango", "Papaya", "Watermelon", "Muskmelon", "Cucumber", "Grapes", "Orange", "Apple">>>>,
    <<"cash_crops", <<"Cotton", "Sugarcane", "Jute", "Tobacco">>>>,
    <<"spices", <<"Turmeric", "Ginger", "Chilli", "Cardamom", "Pepper", "Cumin", "Coriander">>>>,
    <<"masale", <<"Turmeric", "Ginger", "Chilli", "Cardamom", "Pepper", "Cumin", "Coriander">>>>,
    <<"plantation", <<"Tea", "Coffee", "Coconut", "Arecanut", "Rubber", "Cashew">>>>
  >>

CROP_ALIASES ==
  <<
    <<"paddy", "Rice">>, <<"dhan", "Rice">>, <<"chawal", "Rice">>, <<"rice paddy", "Rice">>,
    <<"dhaan", "Rice">>, <<"chaawal", "Rice">>, <<"gehu", "Wheat">>, <<"gehun", "Wheat">>,
    <<"gahu", "Wheat">>, <<"atta", "Wheat">>, <<"corn", "Maize">>, <<"makka", "Maize">>,
    <<"makki", "Maize">>, <<"bhutta", "Maize">>, <<"bajra", "Millets">>,
    <<"jowar", "Millets">>, <<"ragi", "Millets">>, <<"nachni", "Ragi">>,
    <<"sorghum", "Jowar">>, <<"pearl millet", "Bajra">>, <<"finger millet", "Ragi">>,
    <<"chana", "Chickpea">>, <<"gram", "Chickpea">>, <<"chole", "Chickpea">>,
    <<"kabuli chana", "Chickpea">>, <<"masoor", "Lentils">>, <<"dal", "Lentils">>,
    <<"arhar", "Pigeon Pea">>, <<"tur", "Pigeon Pea">>, <<"toor", "Pigeon Pea">>,
    <<"matar", "Peas">>, <<"green peas", "Peas">>, <<"moong", "Moong">>, <<"mung", "Moong">>,
    <<"green gram", "Moong">>, <<"urad", "Urad">>, <<"black gram", "Urad">>,
    <<"sarson", "Mustard">>, <<"sarso", "Mustard">>, <<"rai", "Mustard">>,
    <<"moongfali", "Groundnut">>, <<"mungfali", "Groundnut">>, <<"peanut", "Groundnut">>,
    <<"peanuts", "Groundnut">>, <<"til", "Sesame">>, <<"gingelly", "Sesame">>,
    <<"aloo", "Potato">>, <<"alu", "Potato">>, <<"aaloo", "Potato">>, <<"pyaz", "Onion">>,
    <<"pyaaz", "Onion">>, <<"kanda", "Onion">>, <<"tamatar", "Tomato">>,
    <<"tamaatar", "Tomato">>, <<"baingan", "Brinjal">>, <<"baigan", "Brinjal">>,
    <<"eggplant", "Brinjal">>, <<"aubergine", "Brinjal">>, <<"patta gobhi", "Cabbage">>,
    <<"band gobhi", "Cabbage">>, <<"phool gobhi", "Cauliflower">>, <<"gobi", "Cauliflower">>,
    <<"mirchi", "Chilli">>, <<"mirch", "Chilli">>, <<"green chilli", "Chilli">>,
    <<"lehsun", "Garlic">>, <<"lahsun", "Garlic">>, <<"adrak", "Ginger">>,
    <<"adrakh", "Ginger">>, <<"haldi", "Turmeric">>, <<"kela", "Banana">>, <<"aam", "Mango">>,
    <<"papita", "Papaya">>, <<"tarbuz", "Watermelon">>, <<"tarbooz", "Watermelon">>,
    <<"kharbooja", "Muskmelon">>, <<"kharbuza", "Muskmelon">>, <<"kakdi", "Cucumber">>,
    <<"kheera", "Cucumber">>, <<"angur", "Grapes">>, <<"angoor", "Grapes">>,
    <<"santra", "Orange">>, <<"narangi", "Orange">>, <<"seb", "Apple">>, <<"kapas", "Cotton">>,
    <<"rui", "Cotton">>, <<"narma", "Cotton">>, <<"ganna", "Sugarcane">>,
    <<"ikh", "Sugarcane">>, <<"ganne", "Sugarcane">>, <<"joot", "Jute">>, <<"pat", "Jute">>,
    <<"chai", "Tea">>, <<"coffee", "Coffee">>, <<"nariyal", "Coconut">>,
    <<"narial", "Coconut">>, <<"supari", "Arecanut">>, <<"kaju", "Cashew">>
  >>

DISASTER_MAPPING ==
  <<
    <<"flood", <<"flood", "heavy_rain", "waterlogging", "inundation">>>>,
    <<"heavy_rain", <<"flood", "heavy_rain", "waterlogging">>>>,
    <<"waterlogging", <<"flood", "waterlogging">>>>,
    <<"drought", <<"drought", "water_scarcity", "dry_spell">>>>,
    <<"no_rain", <<"drought">>>>,
    <<"water_scarcity", <<"drought">>>>,
    <<"dry_spell", <<"drought">>>>,
    <<"cyclone", <<"cyclone", "storm", "hurricane", "typhoon">>>>,
    <<"storm", <<"cyclone", "storm">>>>,
    <<"hurricane", <<"cyclone">>>>,
    <<"typhoon", <<"cyclone">>>>,
    <<"hailstorm", <<"hailstorm", "frost", "cold_wave">>>>,
    <<"frost", <<"hailstorm", "frost", "cold_wave">>>>,
    <<"cold_wave", <<"frost", "cold_wave">>>>,
    <<"heatwave", <<"heatwave", "heat_stress">>>>,
    <<"heat_stress", <<"heatwave">>>>,
    <<"pest_attack", <<"pest_attack", "insect_attack", "locust">>>>,
    <<"insect_attack", <<"pest_attack">>>>,
    <<"locust", <<"pest_attack">>>>,
    <<"disease", <<"disease", "crop_disease", "fungal_infection">>>>,
    <<"crop_disease", <<"disease">>>>,
    <<"fungal_infection", <<"disease">>>>,
    <<"earthquake", <<"earthquake", "landslide">>>>,
    <<"landslide", <<"landslide", "earthquake">>>>,
    <<"unseasonal_rain", <<"flood", "hailstorm">>>>,
    <<"fire", <<"fire">>>>
  >>

DISASTER_ALIASES ==
  <<
    <<"baarish", "heavy_rain">>, <<"barish", "heavy_rain">>, <<"heavy rain", "heavy_rain">>,
    <<"bahut baarish", "heavy_rain">>, <<"paani", "flood">>, <<"baadh", "flood">>,
    <<"badh", "flood">>, <<"sukha", "drought">>, <<"no rain", "drought">>,
    <<"bina baarish", "drought">>, <<"paani ki kami", "drought">>,
    <<"water shortage", "drought">>, <<"toofan", "cyclone">>, <<"toofaan", "cyclone">>,
    <<"aandhi", "storm">>, <<"andhi", "storm">>, <<"cyclonic storm", "cyclone">>,
    <<"tufan", "cyclone">>, <<"ole", "hailstorm">>, <<"hail", "hailstorm">>,
    <<"olavrishti", "hailstorm">>, <<"barf", "frost">>, <<"pala", "frost">>,
    <<"frost damage", "frost">>, <<"loo", "heatwave">>, <<"garmi", "heatwave">>,
    <<"heat wave", "heatwave">>, <<"bahut garmi", "heatwave">>, <<"keede", "pest_attack">>,
    <<"kida", "pest_attack">>, <<"keeda", "pest_attack">>, <<"tiddi", "pest_attack">>,
    <<"locust attack", "pest_attack">>, <<"insects", "pest_attack">>, <<"rog", "disease">>,
    <<"bimari", "disease">>, <<"beemari", "disease">>, <<"fungus", "disease">>,
    <<"infection", "disease">>, <<"bhukamp", "earthquake">>, <<"bhuchal", "earthquake">>,
    <<"pahad girana", "landslide">>, <<"landslip", "landslide">>, <<"aag", "fire">>,
    <<"fire", "fire">>
  >>

(***************************************************************************)
(* The catalog file and the normalizers                                    *)
(***************************************************************************)
\* load_schemes_data: the parsed schemes.json, or the empty catalog when the
\* file does not exist.  file = [exists |-> BOOLEAN, data |-> dict]
load_schemes_data(file) ==
  IF file.exists THEN file.data
  ELSE [schemes |-> <<>>, disaster_types |-> <<>>, crops |-> <<>>, states |-> <<>>]

\* a guard that lets the empty string through
falsy_none_only(x) == x = None

\* "not x" for x a str or None
falsy(x) == x = None \/ x = ""

\* normalize_crop: (normalized_crop, match_type, related_crops)
normalize_crop(crop_input, file) ==
  IF falsy(crop_input) THEN <<None, "unknown", <<>>>>
  ELSE
    LET crop_lower == str_lower(str_strip(crop_input))
        crop_title == str_title(str_strip(crop_input))
        schemes_data == load_schemes_data(file)
        valid_crops == LowerAll(Get(schemes_data, "crops", <<>>))
        Similar(standard_crop) ==
          \/ str_in(crop_lower, standard_crop)
          \/ str_in(standard_crop, crop_lower)
          \/ /\ Len(crop_lower) >= 4
             /\ Len(standard_crop) >= 4
             /\ str_prefix(crop_lower, 4) = str_prefix(standard_crop, 4)
        Partial(item) == str_in(item[1], crop_lower) \/ str_in(crop_lower, item[1])
        fuzzy == FirstIndex(valid_crops, Similar)
        partial == FirstIndex(CROP_ALIASES, Partial)
    IN
      IF InList(crop_lower, valid_crops) THEN <<crop_title, "exact", <<>>>>
      ELSE IF HasKey(CROP_ALIASES, crop_lower)
        THEN <<Lookup(CROP_ALIASES, crop_lower), "alias", <<>>>>
      ELSE IF HasKey(CROP_CATEGORIES, crop_lower)
        THEN <<Lookup(CROP_CATEGORIES, crop_lower)[1], "category",
               Lookup(CROP_CATEGORIES, crop_lower)>>
      ELSE IF fuzzy # 0 THEN <<str_title(valid_crops[fuzzy]), "fuzzy", <<>>>>
      ELSE IF partial # 0 THEN <<CROP_ALIASES[partial][2], "fuzzy", <<>>>>
      ELSE <<crop_title, "unknown", <<>>>>

\* the related list of a disaster that matched nothing
GENERAL_DISASTERS == <<"flood", "drought", "cyclone", "hailstorm", "pest_attack", "disease">>

\* normalize_disaster: (normalized_disaster, match_type, related_disasters)
normalize_disaster(disaster_input) ==
  IF falsy(disaster_input) THEN <<None, "unknown", <<>>>>
  ELSE
    LET disaster_lower == str_replace(str_lower(str_strip(disaster_input)), " ", "_")
        disaster_no_underscore == str_replace(disaster_lower, "_", "")
        SameLetters(item) == str_replace(item[1], "_", "") = disaster_no_underscore
        PartialKey(item) == str_in(disaster_lower, item[1]) \/ str_in(item[1], disaster_lower)
        PartialAlias(item) ==
          \/ str_in(str_replace(item[1], " ", "_"), disaster_lower)
          \/ str_in(disaster_lower, str_replace(item[1], " ", "_"))
        squeezed == FirstIndex(DISASTER_MAPPING, SameLetters)
        partial == FirstIndex(DISASTER_MAPPING, PartialKey)
        alias == FirstIndex(DISASTER_ALIASES, PartialAlias)
    IN
      IF HasKey(DISASTER_MAPPING, disaster_lower)
        THEN <<disaster_lower, "exact", Lookup(DISASTER_MAPPING, disaster_lower)>>
      ELSE IF HasKey(DISASTER_ALIASES, disaster_lower)
        THEN LET normalized == Lookup(DISASTER_ALIASES, disaster_lower)
             IN <<normalized, "alias", LookupOr(DISASTER_MAPPING, normalized, <<normalized>>)>>
      ELSE IF squeezed # 0
        THEN <<DISASTER_MAPPING[squeezed][1], "fuzzy", DISASTER_MAPPING[squeezed][2]>>
      ELSE IF partial # 0
        THEN <<DISASTER_MAPPING[partial][1], "fuzzy", DISASTER_MAPPING[partial][2]>>
      ELSE IF alias # 0
        THEN LET standard == DISASTER_ALIASES[alias][2]
             IN <<standard, "fuzzy", LookupOr(DISASTER_MAPPING, standard, <<standard>>)>>
      ELSE <<"general", "unknown", GENERAL_DISASTERS>>

(***************************************************************************)
(* find_eligible_schemes: the candidate lists                              *)
(***************************************************************************)
\* the first occurrences of the truthy elements of a list
RECURSIVE Distinct(_)
Distinct(list) ==
  IF list = <<>> THEN <<>>
  ELSE LET rest == Distinct(SubSeq(list, 1, Len(list) - 1))
           x == list[Len(list)]
       IN IF x = None \/ x = "" \/ InList(x, rest) THEN rest ELSE Append(rest, x)

\* list(set([x for x in list if x])).  The iteration order of a set of str
\* is fixed by the interpreter's hash seed and by nothing in the program:
\* the seeds 1..NumSeeds stand for the orders a process may see, seed k
\* giving the distinct elements rotated left by k - 1.
list_of_set(list, seed) ==
  LET u == Distinct(list)
      n == Len(u)
  IN IF n = 0 THEN <<>> ELSE [i \in 1..n |-> u[((i - 1 + seed - 1) % n) + 1]]

crops_to_check(normalized_crop, related_crops, seed) ==
  list_of_set(<<normalized_crop>> \o related_crops, seed)

disasters_to_check(normalized_disaster, related_disasters, seed) ==
  list_of_set(IF related_disasters # <<>> THEN related_disasters
              ELSE <<normalized_disaster>>, seed)

(***************************************************************************)
(* find_eligible_schemes: one iteration of the loop over the catalog       *)
(*   q: the arguments [crop, disaster_type, land_size, has_insurance,      *)
(*      damage_percent, has_kcc]                                           *)
(*   n: [normalized_crop, crops_to_check, normalized_disaster,             *)
(*      disasters_to_check]                                                *)
(***************************************************************************)
\* a float is [kind, value]: kind "finite" with a whole value, "nan", "inf"
\* or "-inf"
Finite(v) == [kind |-> "finite", value |-> v]

\* x <= n and n <= x for a float x and an integer n: every comparison with
\* nan is False
float_le_int(x, n) ==
  CASE x.kind = "finite" -> x.value <= n
    [] x.kind = "-inf" -> TRUE
    [] OTHER -> FALSE

int_le_float(n, x) ==
  CASE x.kind = "finite" -> n <= x.value
    [] x.kind = "inf" -> TRUE
    [] OTHER -> FALSE

Min(a, b) == IF a <= b THEN a ELSE b

\* int(a / b) for b > 0: the quotient truncated toward zero
IntDiv(a, b) == IF a >= 0 THEN a \div b ELSE -((-a) \div b)

accepts_all_crops(scheme) ==
  LET scheme_crops == Get(scheme, "eligible_crops", <<>>)
      scheme_crops_lower == LowerAll(scheme_crops)
  IN \/ InList("All Crops", scheme_crops)
     \/ InList("all", scheme_crops_lower)
     \/ InList("general", scheme_crops_lower)

\* the index in crops_to_check of the crop the inner loop breaks on, or 0
crop_hit(scheme, n) ==
  LET scheme_crops_lower == LowerAll(Get(scheme, "eligible_crops", <<>>))
      Covered(check_crop) == InList(str_lower(check_crop), scheme_crops_lower)
  IN FirstIndex(n.crops_to_check, Covered)

\* crop_score, given whether the scheme takes all crops and the crop hit
crop_score(all_crops, hit, n) ==
  IF all_crops THEN 20
  ELSE IF hit = 0 THEN 0
  ELSE IF n.normalized_crop # None /\ n.normalized_crop # ""
          /\ str_lower(n.crops_to_check[hit]) = str_lower(n.normalized_crop)
    THEN 50
  ELSE 35

matched_crop_name(all_crops, hit, n) ==
  IF all_crops THEN "All Crops"
  ELSE IF hit = 0 THEN None
  ELSE n.crops_to_check[hit]

accepts_all_disasters(scheme) ==
  LET scheme_disasters == Get(scheme, "disaster_types", <<>>)
  IN InList("general", scheme_disasters) \/ InList("all", scheme_disasters)

\* the index in disasters_to_check of the disaster the inner loop breaks on
disaster_hit(scheme, n) ==
  LET scheme_disasters == Get(scheme, "disaster_types", <<>>)
      Covered(check_disaster) == InList(check_disaster, scheme_disasters)
  IN FirstIndex(n.disasters_to_check, Covered)

disaster_score(all_disasters, hit, n) ==
  IF all_disasters THEN 20
  ELSE IF hit = 0 THEN 0
  ELSE IF n.disasters_to_check[hit] = n.normalized_disaster THEN 50
  ELSE 35

matched_disaster_name(all_disasters, hit, n) ==
  IF all_disasters THEN "General Disaster"
  ELSE IF hit = 0 THEN None
  ELSE n.disasters_to_check[hit]

land_eligible(scheme, q) ==
  /\ int_le_float(Get(scheme, "min_land_size", 0), q.land_size)
  /\ float_le_int(q.land_size, Get(scheme, "max_land_size", 999))

\* insurance_ok without the requires_insurance test
insurance_ok_unchecked(scheme, q) == TRUE

insurance_ok(scheme, q) ==
  ~(Get(scheme, "requires_insurance", FALSE) /\ ~q.has_insurance)

insurance_bonus(scheme, q) ==
  IF q.has_insurance /\ Get(scheme, "requires_insurance", FALSE) THEN 20
  ELSE IF q.has_insurance THEN 10
  ELSE 0

\* the damage thresholds tested one after the other, each adding its bonus
damage_bonus_cumulative(q) ==
  (IF q.damage_percent >= 75 THEN 25 ELSE 0)
    + (IF q.damage_percent >= 50 THEN 15 ELSE 0)
    + (IF q.damage_percent >= 33 THEN 10 ELSE 0)

damage_bonus(q) ==
  IF q.damage_percent >= 75 THEN 25
  ELSE IF q.damage_percent >= 50 THEN 15
  ELSE IF q.damage_percent >= 33 THEN 10
  ELSE 0

kcc_bonus(scheme, q) ==
  IF q.has_kcc /\ str_in("kcc", str_lower(Get(scheme, "id", ""))) THEN 30 ELSE 0

\* the sum without the bonus for a land size in range
priority_score_without_land(crop_pts, disaster_pts, land_ok, scheme, q) ==
  crop_pts + disaster_pts
    + (IF float_le_int(q.land_size, 2) THEN 15 ELSE 0)
    + insurance_bonus(scheme, q)
    + damage_bonus(q)
    + kcc_bonus(scheme, q)

priority_score(crop_pts, disaster_pts, land_ok, scheme, q) ==
  crop_pts + disaster_pts
    + (IF land_ok THEN 10 ELSE 0)
    + (IF float_le_int(q.land_size, 2) THEN 15 ELSE 0)
    + insurance_bonus(scheme, q)
    + damage_bonus(q)
    + kcc_bonus(scheme, q)

estimated_amount(scheme, q) ==
  IntDiv(Get(scheme, "max_amount", 0)
           * Min(q.damage_percent, Get(scheme, "compensation_percent", 100)), 100)

\* 'high' as soon as one axis scores 50
match_confidence_either(crop_pts, disaster_pts) ==
  IF crop_pts >= 50 \/ disaster_pts >= 50 THEN "high"
  ELSE IF crop_pts >= 35 \/ disaster_pts >= 35 THEN "medium"
  ELSE "low"

match_confidence(crop_pts, disaster_pts) ==
  IF crop_pts >= 50 /\ disaster_pts >= 50 THEN "high"
  ELSE IF crop_pts >= 35 \/ disaster_pts >= 35 THEN "medium"
  ELSE "low"

\* match_reasons, each message reduced to its tag and its interpolated name
match_reasons(crop_pts, crop_name, disaster_pts, disaster_name, land_ok, scheme, q) ==
  (IF crop_pts = 20 THEN <<"covers all crop types">>
   ELSE IF crop_pts = 50 THEN <<"your crop is directly covered: " \o q.crop>>
   ELSE IF crop_pts = 35 THEN <<"related crop is covered: " \o crop_name>>
   ELSE <<>>)
  \o
  (IF disaster_pts = 20 THEN <<"covers general disaster relief">>
   ELSE IF disaster_pts = 50
     THEN <<"disaster type is covered: " \o str_title(str_replace(q.disaster_type, "_", " "))>>
   ELSE IF disaster_pts = 35
     THEN <<"related disaster type is covered: "
              \o str_title(str_replace(disaster_name, "_", " "))>>
   ELSE <<>>)
  \o (IF land_ok THEN <<"land size meets criteria">> ELSE <<>>)
  \o (IF float_le_int(q.land_size, 2) THEN <<"small/marginal farmer">> ELSE <<>>)
  \o (IF insurance_bonus(scheme, q) = 20 THEN <<"crop insurance qualifies you for claims">>
      ELSE IF insurance_bonus(scheme, q) = 10 THEN <<"additional insurance coverage available">>
      ELSE <<>>)
  \o (IF damage_bonus(q) = 25 THEN <<"severe damage">>
      ELSE IF damage_bonus(q) = 15 THEN <<"significant damage">>
      ELSE IF damage_bonus(q) = 10 THEN <<"moderate damage">>
      ELSE <<>>)
  \o (IF kcc_bonus(scheme, q) = 30 THEN <<"KCC holder">> ELSE <<>>)

\* the allowlist without the insurance scheme
ALWAYS_INCLUDED_uninsured == {"sdrf", "small_farmer_relief"}

ALWAYS_INCLUDED == {"sdrf", "pmfby", "small_farmer_relief"}

\* the partial-match branch taken whatever the land size
tier_land_unchecked(crop_ok, disaster_ok, land_ok, insured, scheme) ==
  IF crop_ok /\ disaster_ok /\ land_ok /\ insured THEN "full"
  ELSE IF crop_ok \/ disaster_ok THEN "partial"
  ELSE IF Get(scheme, "id", None) \in {"sdrf", "pmfby", "small_farmer_relief"} THEN "always"
  ELSE "dropped"

\* the branch of "Categorize scheme" the iteration takes
tier(crop_ok, disaster_ok, land_ok, insured, scheme) ==
  IF crop_ok /\ disaster_ok /\ land_ok /\ insured THEN "full"
  ELSE IF (crop_ok \/ disaster_ok) /\ land_ok THEN "partial"
  ELSE IF Get(scheme, "id", None) \in ALWAYS_INCLUDED THEN "always"
  ELSE "dropped"

\* the local variables of one iteration, at its "Categorize scheme" step.
\* scheme_result is the dict built there (the display fields name,
\* description, documents, steps and website are copied from the scheme
\* unchanged and are left out)
iteration(scheme, q, n) ==
  LET all_crops == accepts_all_crops(scheme)
      c_hit == IF all_crops THEN 0 ELSE crop_hit(scheme, n)
      crop_pts == crop_score(all_crops, c_hit, n)
      crop_name == matched_crop_name(all_crops, c_hit, n)
      all_disasters == accepts_all_disasters(scheme)
      d_hit == IF all_disasters THEN 0 ELSE disaster_hit(scheme, n)
      disaster_pts == disaster_score(all_disasters, d_hit, n)
      disaster_name == matched_disaster_name(all_disasters, d_hit, n)
      land_ok == land_eligible(scheme, q)
  IN [crop_score |-> crop_pts,
      disaster_score |-> disaster_pts,
      crop_matched |-> all_crops \/ c_hit # 0,
      disaster_matched |-> all_disasters \/ d_hit # 0,
      land_eligible |-> land_ok,
      insurance_ok |-> insurance_ok(scheme, q),
      tier |-> tier(all_crops \/ c_hit # 0, all_disasters \/ d_hit # 0, land_ok,
                    insurance_ok(scheme, q), scheme),
      scheme_result |->
        [id |-> Get(scheme, "id", None),
         max_amount |-> Get(scheme, "max_amount", 0),
         estimated_amount |-> estimated_amount(scheme, q),
         compensation_percent |-> Get(scheme, "compensation_percent", 100),
         helpline |-> Get(scheme, "helpline", "N/A"),
         reasons |-> match_reasons(crop_pts, crop_name, disaster_pts, disaster_name,
                                   land_ok, scheme, q),
         priority_score |-> priority_score(crop_pts, disaster_pts, land_ok, scheme, q),
         match_confidence |-> match_confidence(crop_pts, disaster_pts),
         crop_matched |-> crop_name,
         disaster_matched |-> disaster_name]]

\* the partial-match branch that keeps the computed confidence
partial_result_confident(it) ==
  [it.scheme_result EXCEPT
     !.reasons = <<"partial match - verify eligibility with helpline">> \o @]

\* the partial-match branch's changes to scheme_result
partial_result(it) ==
  [it.scheme_result EXCEPT
     !.reasons = <<"partial match - verify eligibility with helpline">> \o @,
     !.match_confidence = "low"]

\* the always-included branch that keeps the computed score
always_result_scored(it) ==
  [it.scheme_result EXCEPT
     !.reasons = <<"general relief scheme",
                   IF it.land_eligible THEN "land size eligible"
                   ELSE "check land size criteria">>,
     !.match_confidence = "low"]

\* the always-included branch's changes to scheme_result
always_result(it) ==
  [it.scheme_result EXCEPT
     !.reasons = <<"general relief scheme",
                   IF it.land_eligible THEN "land size eligible"
                   ELSE "check land size criteria">>,
     !.match_confidence = "low",
     !.priority_score = 5]

\* eligible_schemes after the iteration
eligible_after(eligible, it) ==
  IF it.tier = "full" THEN Append(eligible, it.scheme_result) ELSE eligible

\* fallback_schemes after the iteration
fallback_after(fallback, it) ==
  IF it.tier = "partial" THEN Append(fallback, partial_result(it))
  ELSE IF it.tier = "always" THEN Append(fallback, always_result(it))
  ELSE fallback

(***************************************************************************)
(* find_eligible_schemes: sorting and the fallback ladder                  *)
(***************************************************************************)
\* a sort that leaves the list as it was appended
sort_skipped(list) == list

\* list.sort(key=priority_score, reverse=True): stable, equal scores keep
\* their order
RECURSIVE sort_by_priority(_)

sort_by_priority(list) ==
  IF list = <<>> THEN <<>>
  ELSE LET sorted == sort_by_priority(SubSeq(list, 1, Len(list) - 1))
           x == list[Len(list)]
           k == Cardinality({i \in DOMAIN sorted :
                               sorted[i].priority_score >= x.priority_score})
       IN SubSeq(sorted, 1, k) \o <<x>> \o SubSeq(sorted, k + 1, Len(sorted))

\* every fallback scheme appended as a suggestion
suggestions_uncut(fallback) ==
  [i \in DOMAIN fallback |->
     [is_suggestion |-> TRUE]
       @@ [fallback[i] EXCEPT !.reasons = <<"you may also qualify for this scheme">> \o @]]

\* fallback_schemes[:2], each marked as a suggestion
suggestions(fallback) ==
  [i \in 1..Min(2, Len(fallback)) |->
     [is_suggestion |-> TRUE]
       @@ [fallback[i] EXCEPT !.reasons = <<"you may also qualify for this scheme">> \o @]]

\* the fallback list returned when no scheme matched in full
partial_matches(fallback) ==
  [i \in DOMAIN fallback |->
     [fallback[i] EXCEPT !.reasons = <<"showing relevant schemes based on partial match">> \o @]]

GENERIC_IDS == {"sdrf", "pmfby", "input_subsidy", "small_farmer_relief"}

generic_result(scheme, q) ==
  [id |-> Get(scheme, "id", None),
   max_amount |-> Get(scheme, "max_amount", 0),
   estimated_amount |-> IntDiv(Get(scheme, "max_amount", 0) * q.damage_percent, 100),
   compensation_percent |-> Get(scheme, "compensation_percent", 100),
   helpline |-> Get(scheme, "helpline", "N/A"),
   reasons |-> <<"general government relief scheme",
                 "your crop may qualify: " \o q.crop,
                 "disaster relief available if declared by state: "
                   \o str_title(str_replace(q.disaster_type, "_", " ")),
                 "call helpline for eligibility confirmation">>,
   priority_score |-> 5,
   match_confidence |-> "low",
   is_fallback |-> TRUE]

generic_schemes(schemes_data, q) ==
  LET Generic(scheme) == Get(scheme, "id", None) \in GENERIC_IDS
      chosen == SelectSeq(Get(schemes_data, "schemes", <<>>), Generic)
  IN [i \in DOMAIN chosen |-> generic_result(chosen[i], q)]

\* the synthetic entry as the generic rung builds its entries
contact_helpline_generic(q) ==
  [id |-> "contact_helpline",
   max_amount |-> 0,
   estimated_amount |-> IntDiv(0 * q.damage_percent, 100),
   compensation_percent |-> 100,
   helpline |-> "N/A",
   reasons |-> <<"general government relief scheme">>,
   priority_score |-> 5,
   match_confidence |-> "low",
   is_fallback |-> TRUE]


contact_helpline(q) ==
  [id |-> "contact_helpline",
   max_amount |-> 0,
   estimated_amount |-> 0,
   compensation_percent |-> 0,
   helpline |-> "1800-180-1551",
   reasons |-> <<"no exact match found for " \o q.crop \o " + "
                   \o str_title(str_replace(q.disaster_type, "_", " ")),
                 "contact helpline for state-specific schemes",
                 "visit local agriculture office for assistance">>,
   priority_score |-> 1,
   match_confidence |-> "low",
   is_fallback |-> TRUE]

\* last_resort without its final rung
last_resort_without_helpline(schemes_data, q) == generic_schemes(schemes_data, q)

\* the last two rungs: the generic schemes, or the synthetic entry
last_resort(schemes_data, q) ==
  IF generic_schemes(schemes_data, q) # <<>> THEN generic_schemes(schemes_data, q)
  ELSE <<contact_helpline(q)>>

\* what find_eligible_schemes returns once the loop has filled both lists
returned_list(eligible, fallback, schemes_data, q) ==
  LET eligible_sorted == sort_by_priority(eligible)
      fallback_sorted == sort_by_priority(fallback)
  IN IF eligible_sorted # <<>> THEN eligible_sorted \o suggestions(fallback_sorted)
     ELSE IF fallback_sorted # <<>> THEN partial_matches(fallback_sorted)
     ELSE last_resort(schemes_data, q)

\* the normalized inputs and the candidate lists of a call
normalized_inputs(q, file, seed) ==
  LET crop == normalize_crop(q.crop, file)
      disaster == normalize_disaster(q.disaster_type)
  IN [normalized_crop |-> crop[1],
      crop_match_type |-> crop[2],
      crops_to_check |-> crops_to_check(crop[1], crop[3], seed),
      normalized_disaster |-> disaster[1],
      disaster_match_type |-> disaster[2],
      disasters_to_check |-> disasters_to_check(disaster[1], disaster[3], seed)]

\* both lists after the first k iterations of the loop
RECURSIVE lists_upto(_, _, _, _)
lists_upto(catalog, k, q, n) ==
  IF k = 0 THEN [eligible |-> <<>>, fallback |-> <<>>]
  ELSE LET before == lists_upto(catalog, k - 1, q, n)
           it == iteration(catalog[k], q, n)
       IN [eligible |-> eligible_after(before.eligible, it),
           fallback |-> fallback_after(before.fallback, it)]

\* find_eligible_schemes run from start to end with nothing else running
find_eligible_schemes(q, file, seed) ==
  LET schemes_data == load_schemes_data(file)
      catalog == Get(schemes_data, "schemes", <<>>)
      lists == lists_upto(catalog, Len(catalog), q, normalized_inputs(q, file, seed))
  IN returned_list(lists.eligible, lists.fallback, schemes_data, q)

(***************************************************************************)
(* disaster_result: the form and its validation                            *)
(***************************************************************************)
DIGITS == "0123456789"

IsDigits(s) == Len(s) > 0 /\ \A i \in 1..Len(s) : IndexOf(CharAt(s, i), DIGITS) # 0

RECURSIVE DigitsValue(_)
DigitsValue(s) ==
  IF Len(s) = 0 THEN 0
  ELSE DigitsValue(SubSeq(s, 1, Len(s) - 1)) * 10 + IndexOf(CharAt(s, Len(s)), DIGITS) - 1

\* int(text) on a whole decimal number with an optional sign and
\* surrounding blanks; ok = FALSE stands for ValueError
parse_number(text) ==
  LET s == str_strip(text)
      signed == Len(s) > 0 /\ CharAt(s, 1) \in {"-", "+"}
      body == IF signed THEN SubSeq(s, 2, Len(s)) ELSE s
  IN IF IsDigits(body)
     THEN [ok |-> TRUE,
           value |-> IF signed /\ CharAt(s, 1) = "-" THEN -DigitsValue(body)
                     ELSE DigitsValue(body)]
     ELSE [ok |-> FALSE, value |-> 0]

\* float(text): what int() takes, and the spellings of nan and of the
\* infinities, any case, with an optional sign and surrounding blanks
parse_float(text) ==
  LET s == str_lower(str_strip(text))
      signed == Len(s) > 0 /\ CharAt(s, 1) \in {"-", "+"}
      body == IF signed THEN SubSeq(s, 2, Len(s)) ELSE s
      negative == signed /\ CharAt(s, 1) = "-"
  IN IF parse_number(text).ok
     THEN [ok |-> TRUE, value |-> Finite(parse_number(text).value)]
     ELSE IF body = "nan"
     THEN [ok |-> TRUE, value |-> [kind |-> "nan", value |-> 0]]
     ELSE IF body \in {"inf", "infinity"}
     THEN [ok |-> TRUE,
           value |-> [kind |-> IF negative THEN "-inf" ELSE "inf", value |-> 0]]
     ELSE [ok |-> FALSE, value |-> Finite(0)]

\* the arguments disaster_result passes to find_eligible_schemes
call_arguments(form) ==
  [crop |-> Get(form, "crop", ""),
   disaster_type |-> Get(form, "disaster_type", ""),
   land_size |-> parse_float(Get(form, "land_size", "0")).value,
   has_insurance |-> Get(form, "has_insurance", "no") = "yes",
   damage_percent |-> parse_number(Get(form, "damage_percent", "50")).value,
   has_kcc |-> Get(form, "has_kcc", "no") = "yes"]

\* the request reaches find_eligible_schemes: no ValueError, and the check
\* "not crop or not disaster_type or land_size <= 0" does not redirect
form_accepted(form) ==
  /\ parse_float(Get(form, "land_size", "0")).ok
  /\ parse_number(Get(form, "damage_percent", "50")).ok
  /\ call_arguments(form).crop # ""
  /\ call_arguments(form).disaster_type # ""
  /\ ~float_le_int(call_arguments(form).land_size, 0)

(***************************************************************************)
(* Bounds and inputs                                                       *)
(***************************************************************************)
MaxSchemes == 2   \* the longest catalog
NumSeeds == 2     \* the hash seeds (set iteration orders) a process may have
NumCalls == 2     \* the requests that may be in progress at once

Calls == 1..NumCalls
Seeds == 1..NumSeeds

\* the schemes catalogs are drawn from; absent keys are absent
POOL ==
  << [id |-> "sdrf", eligible_crops |-> <<"Rice", "Wheat">>,
      disaster_types |-> <<"flood", "heavy_rain">>, max_amount |-> 1000,
      helpline |-> "1070"],
     [id |-> "pmfby", eligible_crops |-> <<"Rice", "Chickpea", "Lentils">>,
      disaster_types |-> <<"flood", "heavy_rain", "drought">>,
      requires_insurance |-> TRUE, max_amount |-> 2000, compensation_percent |-> 80],
     [id |-> "input_subsidy", eligible_crops |-> <<"Rice">>,
      disaster_types |-> <<"drought">>, max_amount |-> 500,
      compensation_percent |-> 50, max_land_size |-> 2, requires_insurance |-> TRUE],
     [id |-> "small_farmer_relief", eligible_crops |-> <<"All Crops">>,
      disaster_types |-> <<"general">>, max_land_size |-> 2, max_amount |-> 300],
     [id |-> "KCC_restructure", eligible_crops |-> <<"all">>,
      disaster_types |-> <<"all">>, min_land_size |-> 2, max_amount |-> 1500,
      requires_insurance |-> FALSE],
     [id |-> "pulse_mission", eligible_crops |-> <<"Chickpea", "Lentils">>,
      disaster_types |-> <<"no_rain", "flood", "heavy_rain">>, max_amount |-> 800],
     [id |-> "dal_relief", eligible_crops |-> <<"lentils">>,
      disaster_types |-> <<"drought", "heavy_rain">>, max_amount |-> 800],
     [id |-> "bare"] >>

\* the "crops" list of a catalog
CATALOG_CROPS == <<"Rice", "Wheat", "Sugarcane", "Chickpea", "Lentils">>

\* the elements of a set of indices, ascending
RECURSIVE Ascending(_)
Ascending(S) ==
  IF S = {} THEN <<>>
  ELSE LET m == CHOOSE x \in S : \A y \in S : y <= x
       IN Append(Ascending(S \ {m}), m)

CatalogOf(S) ==
  [exists |-> TRUE,
   data |-> [schemes |-> [i \in 1..Cardinality(S) |-> POOL[Ascending(S)[i]]],
             crops |-> CATALOG_CROPS]]

\* schemes.json: missing, without a "schemes" key, holding up to MaxSchemes
\* schemes of the pool in pool order, or holding the whole pool
Catalogs ==
  {[exists |-> FALSE], [exists |-> TRUE, data |-> [crops |-> CATALOG_CROPS]]}
    \cup {CatalogOf(S) : S \in {T \in SUBSET DOMAIN POOL : Cardinality(T) <= MaxSchemes}}
    \cup {CatalogOf(DOMAIN POOL)}

\* the forms a request may post
Forms ==
  [crop : {"pulses", "Rice", "Tea", ""},
   disaster_type : {"flood", "no_rain", "fire", ""},
   land_size : {"1", "5", "0", "abc"},
   has_insurance : {"yes", "no"},
   has_kcc : {"yes", "no"},
   damage_percent : {"20", "80", "150"}]
    \cup [crop : {"Rice"},
          disaster_type : {"flood"},
          land_size : {"NaN", "inf"},
          has_insurance : {"yes", "no"},
          has_kcc : {"no"},
          damage_percent : {"20"}]

\* the catalogs and forms of the runs with several calls in progress
PairCatalogs == {[exists |-> FALSE], CatalogOf({1, 2}), CatalogOf({6, 7})}

PairForms ==
  [crop : {"pulses", "Rice"},
   disaster_type : {"flood", ""},
   land_size : {"5"},
   has_insurance : {"no"},
   has_kcc : {"no"},
   damage_percent : {"80"}]

(***************************************************************************)
(* State                                                                   *)
(***************************************************************************)
VARIABLES
  schemes_json,      \* the catalog file
  pc,                \* pc[t]: "idle", "loop" (in find_eligible_schemes), "done"
  frame,             \* frame[t]: the call's arguments, hash seed, schemes_data,
                     \*   normalized inputs and loop index
  eligible_schemes,  \* the list eligible_schemes of each call
  fallback_schemes,  \* the list fallback_schemes of each call
  locals,            \* locals[t]: the loop's local variables, per scheme done
  schemes,           \* schemes[t]: the list find_eligible_schemes returned
  response,          \* response[t]: "none", "redirect" or "render"
  normalization      \* the last call of a normalizer made on its own:
                     \*   [function, stem, input, output]

vars == <<schemes_json, pc, frame, eligible_schemes, fallback_schemes, locals,
          schemes, response, normalization>>

NoNormalization == [function |-> "none"]

NoFrame == [idx |-> 0]

\* both lists kept in one module-level place shared by every call
list_shared(t) == 1

\* where call t keeps its lists: eligible_schemes = [] and
\* fallback_schemes = [] bind fresh lists local to the call
list_of(t) == t

InitCalls ==
  /\ pc = [t \in Calls |-> "idle"]
  /\ frame = [t \in Calls |-> NoFrame]
  /\ eligible_schemes = [t \in Calls |-> <<>>]
  /\ fallback_schemes = [t \in Calls |-> <<>>]
  /\ locals = [t \in Calls |-> <<>>]
  /\ schemes = [t \in Calls |-> <<>>]
  /\ response = [t \in Calls |-> "none"]

Init == schemes_json \in Catalogs /\ InitCalls /\ normalization = NoNormalization

InitPair ==
  schemes_json \in PairCatalogs /\ InitCalls /\ normalization = NoNormalization

(***************************************************************************)
(* Actions                                                                 *)
(***************************************************************************)
\* disaster_result, a request that never reaches find_eligible_schemes:
\* ValueError from float()/int(), or a required field missing
Reject(t, forms) ==
  /\ pc[t] = "idle"
  /\ \E form \in forms : ~form_accepted(form)
  /\ pc' = [pc EXCEPT ![t] = "done"]
  /\ response' = [response EXCEPT ![t] = "redirect"]
  /\ UNCHANGED <<schemes_json, frame, eligible_schemes, fallback_schemes, locals, schemes,
               normalization>>

\* disaster_result up to the call, and find_eligible_schemes up to its loop:
\* the catalog is loaded, the inputs normalized, the candidate lists built
Accept(t, forms) ==
  /\ pc[t] = "idle"
  /\ \E form \in forms, seed \in Seeds :
       /\ form_accepted(form)
       /\ frame' = [frame EXCEPT ![t] =
            [q |-> call_arguments(form),
             seed |-> seed,
             schemes_data |-> load_schemes_data(schemes_json),
             n |-> normalized_inputs(call_arguments(form), schemes_json, seed),
             idx |-> 1]]
  /\ eligible_schemes' = [eligible_schemes EXCEPT ![list_of(t)] = <<>>]
  /\ fallback_schemes' = [fallback_schemes EXCEPT ![list_of(t)] = <<>>]
  /\ pc' = [pc EXCEPT ![t] = "loop"]
  /\ UNCHANGED <<schemes_json, locals, schemes, response, normalization>>

\* one iteration of "for scheme in schemes_data.get('schemes', [])"
ScoreScheme(t) ==
  /\ pc[t] = "loop"
  /\ frame[t].idx <= Len(Get(frame[t].schemes_data, "schemes", <<>>))
  /\ LET scheme == Get(frame[t].schemes_data, "schemes", <<>>)[frame[t].idx]
         it == iteration(scheme, frame[t].q, frame[t].n)
     IN /\ eligible_schemes' = [eligible_schemes EXCEPT
             ![list_of(t)] = eligible_after(@, it)]
        /\ fallback_schemes' = [fallback_schemes EXCEPT
             ![list_of(t)] = fallback_after(@, it)]
        /\ locals' = [locals EXCEPT ![t] = Append(@, it)]
  /\ frame' = [frame EXCEPT ![t].idx = @ + 1]
  /\ UNCHANGED <<schemes_json, pc, schemes, response, normalization>>

\* the loop is over: both lists are sorted, the list is returned and
\* disaster_result renders it
Return(t) ==
  /\ pc[t] = "loop"
  /\ frame[t].idx > Len(Get(frame[t].schemes_data, "schemes", <<>>))
  /\ eligible_schemes' = [eligible_schemes EXCEPT
       ![list_of(t)] = sort_by_priority(@)]
  /\ fallback_schemes' = [fallback_schemes EXCEPT
       ![list_of(t)] = sort_by_priority(@)]
  /\ schemes' = [schemes EXCEPT ![t] =
       returned_list(eligible_schemes[list_of(t)], fallback_schemes[list_of(t)],
                     frame[t].schemes_data, frame[t].q)]
  /\ response' = [response EXCEPT ![t] = "render"]
  /\ pc' = [pc EXCEPT ![t] = "done"]
  /\ UNCHANGED <<schemes_json, frame, locals, normalization>>

\* the response is sent and the request's objects are dropped
Respond(t) ==
  /\ pc[t] = "done"
  /\ pc' = [pc EXCEPT ![t] = "idle"]
  /\ frame' = [frame EXCEPT ![t] = NoFrame]
  /\ eligible_schemes' = [eligible_schemes EXCEPT ![list_of(t)] = <<>>]
  /\ fallback_schemes' = [fallback_schemes EXCEPT ![list_of(t)] = <<>>]
  /\ locals' = [locals EXCEPT ![t] = <<>>]
  /\ schemes' = [schemes EXCEPT ![t] = <<>>]
  /\ response' = [response EXCEPT ![t] = "none"]
  /\ UNCHANGED <<schemes_json, normalization>>

\* one request at a time
Next ==
  \/ Reject(1, Forms)
  \/ Accept(1, Forms)
  \/ ScoreScheme(1)
  \/ Return(1)
  \/ Respond(1)

Spec == Init /\ [][Next]_vars

\* several requests in progress, their steps interleaved
NextPair ==
  \E t \in Calls :
    \/ Reject(t, PairForms)
    \/ Accept(t, PairForms)
    \/ ScoreScheme(t)
    \/ Return(t)
    \/ Respond(t)

SpecPair == InitPair /\ [][NextPair]_vars

Rendered(t) == pc[t] = "done" /\ response[t] = "render"

(***************************************************************************)
(* The normalizers called on their own                                     *)
(***************************************************************************)
MaxPad == 1   \* the most blanks around an input

RECURSIVE str_upper(_)
str_upper(s) ==
  IF Len(s) = 0 THEN "" ELSE UpperChar(CharAt(s, 1)) \o str_upper(SubSeq(s, 2, Len(s)))

RECURSIVE Pad(_)
Pad(k) == IF k = 0 THEN "" ELSE " " \o Pad(k - 1)

Casings == {"lower", "upper", "title"}

\* the stem written in the given case with blanks on both sides
Decorated(stem, casing, left, right) ==
  Pad(left)
    \o (CASE casing = "lower" -> stem
          [] casing = "upper" -> str_upper(stem)
          [] casing = "title" -> str_title(stem))
    \o Pad(right)

\* what a caller may pass as crop: alias keys, category keys, catalog crops,
\* near misses, names no rule knows, the empty string
CropStems ==
  {"paddy", "dhan", "bajra", "sorghum", "chana", "moong", "pulses", "cereals", "cash_crops",
   "rice", "wheat crop", "suga", "tea", "xyzzy", "qq ww", ""}

\* what a caller may pass as disaster type, as typed and with "_" for " "
DisasterStems ==
  {<<"heavy rain", "heavy_rain">>, <<"no rain", "no_rain">>,
   <<"pest attack", "pest_attack">>, <<"bahut baarish", "bahut_baarish">>,
   <<"flood", "flood">>, <<"fire", "fire">>, <<"baadh", "baadh">>,
   <<"earthquake", "earthquake">>, <<"flooding", "flooding">>,
   <<"heat wave", "heat_wave">>, <<"cyclonic storm", "cyclonic_storm">>,
   <<"locust attack", "locust_attack">>, <<"paani ki kami", "paani_ki_kami">>,
   <<"sukha", "sukha">>, <<"", "">>}

CropInputs ==
  {[stem |-> stem, input |-> Decorated(stem, casing, left, right)] :
     stem \in CropStems, casing \in Casings, left \in 0..MaxPad, right \in 0..MaxPad}
    \cup {[stem |-> None, input |-> None]}

DisasterInputs ==
  {[stem |-> pair[2], input |-> Decorated(pair[1], casing, left, right)] :
     pair \in DisasterStems, casing \in Casings, left \in 0..MaxPad, right \in 0..MaxPad}
    \cup {[stem |-> None, input |-> None]}

\* schemes.json as the normalizers see it: missing, the usual crops, and a
\* list of crops that holds alias keys and a category key
NormCatalogs ==
  {[exists |-> FALSE],
   [exists |-> TRUE, data |-> [schemes |-> <<>>, crops |-> CATALOG_CROPS]],
   [exists |-> TRUE, data |-> [schemes |-> <<>>, crops |-> <<"Bajra", "Sorghum", "Moong", "Pulses">>]]}

InitNorm == schemes_json \in NormCatalogs /\ InitCalls /\ normalization = NoNormalization

NormalizeCrop ==
  /\ normalization = NoNormalization
  /\ \E arg \in CropInputs :
       normalization' = [function |-> "normalize_crop", stem |-> arg.stem,
                         input |-> arg.input,
                         output |-> normalize_crop(arg.input, schemes_json)]
  /\ UNCHANGED <<schemes_json, pc, frame, eligible_schemes, fallback_schemes, locals,
                 schemes, response>>

NormalizeDisaster ==
  /\ normalization = NoNormalization
  /\ \E arg \in DisasterInputs :
       normalization' = [function |-> "normalize_disaster", stem |-> arg.stem,
                         input |-> arg.input,
                         output |-> normalize_disaster(arg.input)]
  /\ UNCHANGED <<schemes_json, pc, frame, eligible_schemes, fallback_schemes, locals,
                 schemes, response>>

\* the caller is done with the tuple
Discard ==
  /\ normalization # NoNormalization
  /\ normalization' = NoNormalization
  /\ UNCHANGED <<schemes_json, pc, frame, eligible_schemes, fallback_schemes, locals,
                 schemes, response>>

NextNorm == NormalizeCrop \/ NormalizeDisaster \/ Discard

SpecNorm == InitNorm /\ [][NextNorm]_vars

(***************************************************************************)
(* Properties                                                              *)
(***************************************************************************)
\* a query as the interface asks for it
valid_query(q) ==
  /\ q.crop # ""
  /\ q.disaster_type # ""
  /\ ~float_le_int(q.land_size, 0) /\ q.land_size.kind # "nan"
  /\ q.damage_percent \in 0..100

\* the schemes of the catalog call t loaded
catalog_of(t) == Get(frame[t].schemes_data, "schemes", <<>>)

suggested(r) == Get(r, "is_suggestion", FALSE)

\* C1: for every catalog, the missing and the empty one included, and every
\* valid query, find_eligible_schemes returns a list of at least one element.
C1_NeverEmpty ==
  \A t \in Calls : Rendered(t) /\ valid_query(frame[t].q) => Len(schemes[t]) >= 1

\* a catalog that holds schemes, none of which is kept by any rung but the last
C1_Witness ==
  \E t \in Calls :
    /\ Rendered(t)
    /\ valid_query(frame[t].q)
    /\ catalog_of(t) # <<>>
    /\ \A i \in DOMAIN locals[t] : locals[t][i].tier = "dropped"
    /\ Len(schemes[t]) = 1
    /\ schemes[t][1].id = "contact_helpline"

C3_SameQuerySameList ==
  \A t, u \in Calls :
    Rendered(t) /\ Rendered(u) /\ frame[t].q = frame[u].q => schemes[t] = schemes[u]

\* C4: every result built from a catalog scheme has estimated_amount =
\* int(max_amount * min(damage_percent, compensation_percent) / 100).
C4_EstimatedAmountExact ==
  \A t \in Calls :
    Rendered(t) /\ valid_query(frame[t].q) =>
      \A i \in DOMAIN schemes[t] :
        schemes[t][i].id # "contact_helpline" =>
          schemes[t][i].estimated_amount =
            IntDiv(schemes[t][i].max_amount
                     * Min(frame[t].q.damage_percent, schemes[t][i].compensation_percent),
                   100)

\* C5: every result has estimated_amount <= max_amount, for every
\* damage_percent disaster_result can pass.
C5_EstimatedAmountBounded ==
  \A t \in Calls :
    Rendered(t) =>
      \A i \in DOMAIN schemes[t] : schemes[t][i].estimated_amount <= schemes[t][i].max_amount

\* the crops and disasters related to the normalized ones
sibling_crops(n) ==
  {str_lower(n.crops_to_check[i]) : i \in DOMAIN n.crops_to_check}
    \ {str_lower(n.normalized_crop)}

sibling_disasters(n) ==
  {n.disasters_to_check[i] : i \in DOMAIN n.disasters_to_check} \ {n.normalized_disaster}

crops_listed(scheme) ==
  LET listed == LowerAll(Get(scheme, "eligible_crops", <<>>))
  IN {listed[i] : i \in DOMAIN listed}

disasters_listed(scheme) ==
  LET listed == Get(scheme, "disaster_types", <<>>)
  IN {listed[i] : i \in DOMAIN listed}

\* scheme A of C6: lists the normalized crop and a sibling, and the
\* normalized disaster
lists_exact(scheme, n) ==
  /\ ~accepts_all_crops(scheme) /\ ~accepts_all_disasters(scheme)
  /\ n.normalized_crop # None
  /\ str_lower(n.normalized_crop) \in crops_listed(scheme)
  /\ crops_listed(scheme) \cap sibling_crops(n) # {}
  /\ n.normalized_disaster \in disasters_listed(scheme)

\* scheme B of C6: lists siblings of the crop and of the disaster only
lists_siblings_only(scheme, n) ==
  /\ ~accepts_all_crops(scheme) /\ ~accepts_all_disasters(scheme)
  /\ n.normalized_crop # None
  /\ str_lower(n.normalized_crop) \notin crops_listed(scheme)
  /\ crops_listed(scheme) \cap sibling_crops(n) # {}
  /\ n.normalized_disaster \notin disasters_listed(scheme)
  /\ disasters_listed(scheme) \cap sibling_disasters(n) # {}

\* C6: a scheme listing the exact crop, a sibling crop and the exact
\* disaster scores strictly more on crop_score + disaster_score than a
\* scheme matching the same query through siblings only.
C6_ExactBeatsRelated ==
  \A t \in Calls :
    Rendered(t) /\ valid_query(frame[t].q) =>
      \A a, b \in DOMAIN catalog_of(t) :
        lists_exact(catalog_of(t)[a], frame[t].n)
          /\ lists_siblings_only(catalog_of(t)[b], frame[t].n) =>
            locals[t][a].crop_score + locals[t][a].disaster_score
              > locals[t][b].crop_score + locals[t][b].disaster_score

\* C7: on a catalog of allowlist schemes only and a query matching none of
\* them, every scheme of the catalog is returned with priority_score 5 and
\* match_confidence "low".
C7_AllowlistAllReturned ==
  \A t \in Calls :
    ( /\ Rendered(t)
      /\ valid_query(frame[t].q)
      /\ catalog_of(t) # <<>>
      /\ \A i \in DOMAIN catalog_of(t) :
           /\ Get(catalog_of(t)[i], "id", None) \in GENERIC_IDS
           /\ ~locals[t][i].crop_matched
           /\ ~locals[t][i].disaster_matched )
    => \A i \in DOMAIN catalog_of(t) :
         \E j \in DOMAIN schemes[t] :
           /\ schemes[t][j].id = catalog_of(t)[i].id
           /\ schemes[t][j].priority_score = 5
           /\ schemes[t][j].match_confidence = "low"

\* the scheme of call t's catalog with the given id requires insurance
requires_insurance(t, id) ==
  \E i \in DOMAIN catalog_of(t) :
    /\ Get(catalog_of(t)[i], "id", None) = id
    /\ Get(catalog_of(t)[i], "requires_insurance", FALSE)

C9_HelplineOnly ==
  \A t \in Calls :
    Rendered(t) /\ Get(load_schemes_data(schemes_json), "schemes", <<>>) = <<>> =>
      /\ Len(schemes[t]) = 1
      /\ schemes[t][1].id = "contact_helpline"
      /\ schemes[t][1].helpline = "1800-180-1551"
      /\ schemes[t][1].estimated_amount = 0
      /\ Get(schemes[t][1], "is_fallback", FALSE)

\* a call answered while schemes.json does not exist
C9_Witness ==
  \E t \in Calls :
    /\ Rendered(t)
    /\ ~schemes_json.exists
    /\ schemes[t][1].id = "contact_helpline"

\* C10: interleaved calls on one catalog each return the list they would
\* return alone, and no step writes the catalog the calls share.
C10_CallsIndependent ==
  /\ [](\A t \in Calls :
          Rendered(t) =>
            schemes[t] = find_eligible_schemes(frame[t].q, schemes_json, frame[t].seed))
  /\ [][schemes_json' = schemes_json]_vars

\* a call has returned a list of two while another, on a different query,
\* is inside its loop with a scheme already in its own list
C10_Witness ==
  \E t, u \in Calls :
    /\ t # u
    /\ Rendered(t)
    /\ Len(schemes[t]) >= 2
    /\ pc[u] = "loop"
    /\ frame[u].idx = 2
    /\ frame[u].q # frame[t].q
    /\ eligible_schemes[u] # <<>>

\* call t is inside find_eligible_schemes or has returned from it
Called(t) == "q" \in DOMAIN frame[t]

\* C11: disaster_result never calls find_eligible_schemes with an empty
\* crop, an empty disaster type, or a land_size that is not a number or is
\* <= 0.
C11_NoCallOnInputDefect ==
  \A t \in Calls :
    Called(t) =>
      /\ frame[t].q.crop # ""
      /\ frame[t].q.disaster_type # ""
      /\ frame[t].q.land_size.kind # "nan"
      /\ ~float_le_int(frame[t].q.land_size, 0)

\* C12: every call disaster_result makes passes a damage_percent in 0..100.
C12_DamagePercentClamped ==
  \A t \in Calls : Called(t) => frame[t].q.damage_percent \in 0..100

\* a normalizer has returned for an input built on a stem
Normalized(function) ==
  normalization.function = function /\ normalization.stem # None

\* the lower-cased "crops" list normalize_crop loads
valid_crops_loaded == LowerAll(Get(load_schemes_data(schemes_json), "crops", <<>>))

\* C13: normalize_crop on an alias key, in any case and with blanks around
\* it, that is not a catalog crop returns (alias target, 'alias', []);
\* normalize_crop('paddy') returns ('Rice', 'alias', []).
C13_AliasKey ==
  Normalized("normalize_crop")
    /\ HasKey(CROP_ALIASES, normalization.stem)
    /\ ~InList(normalization.stem, valid_crops_loaded)
  => /\ normalization.output = <<Lookup(CROP_ALIASES, normalization.stem), "alias", <<>>>>
     /\ normalization.stem = "paddy" => normalization.output = <<"Rice", "alias", <<>>>>

\* 'paddy' typed in capitals with blanks around it
C13_Witness ==
  /\ Normalized("normalize_crop")
  /\ normalization.stem = "paddy"
  /\ normalization.input = " PADDY "
  /\ normalization.output = <<"Rice", "alias", <<>>>>

\* C14: normalize_crop on a category key that is neither a catalog crop nor
\* an alias key returns (first crop of the category, 'category', the whole
\* category list in table order); 'pulses' gives Chickpea and the seven pulses.
C14_CategoryKey ==
  Normalized("normalize_crop")
    /\ HasKey(CROP_CATEGORIES, normalization.stem)
    /\ ~HasKey(CROP_ALIASES, normalization.stem)
    /\ ~InList(normalization.stem, valid_crops_loaded)
  => /\ normalization.output =
          <<Lookup(CROP_CATEGORIES, normalization.stem)[1], "category",
            Lookup(CROP_CATEGORIES, normalization.stem)>>
     /\ normalization.stem = "pulses" =>
          normalization.output =
            <<"Chickpea", "category",
              <<"Chickpea", "Lentils", "Pigeon Pea", "Peas", "Moong", "Urad", "Masoor">>>>

\* 'pulses' typed otherwise than the key, on a catalog that has no such crop
C14_Witness ==
  /\ Normalized("normalize_crop")
  /\ normalization.stem = "pulses"
  /\ normalization.input # "pulses"
  /\ ~InList("pulses", valid_crops_loaded)
  /\ normalization.output[2] = "category"
  /\ Len(normalization.output[3]) = 7

\* no rule of normalize_crop applies to the lower-case name
matches_no_rule(name) ==
  /\ name # ""
  /\ ~InList(name, valid_crops_loaded)
  /\ ~HasKey(CROP_ALIASES, name)
  /\ ~HasKey(CROP_CATEGORIES, name)
  /\ \A i \in DOMAIN valid_crops_loaded :
       /\ ~str_in(name, valid_crops_loaded[i])
       /\ ~str_in(valid_crops_loaded[i], name)
       /\ ~(/\ Len(name) >= 4
            /\ Len(valid_crops_loaded[i]) >= 4
            /\ SubSeq(name, 1, 4) = SubSeq(valid_crops_loaded[i], 1, 4))
  /\ \A i \in DOMAIN CROP_ALIASES :
       ~str_in(CROP_ALIASES[i][1], name) /\ ~str_in(name, CROP_ALIASES[i][1])

\* C15: normalize_crop on a non-empty input no rule applies to returns
\* (title-cased input, 'unknown', []), ('Xyzzy', 'unknown', []) for 'xyzzy';
\* its canonical value is None only for the empty string and for None.
C15_Unknown ==
  normalization.function = "normalize_crop" =>
    /\ normalization.output[1] = None <=> normalization.input \in {"", None}
    /\ normalization.stem # None /\ matches_no_rule(normalization.stem) =>
         /\ normalization.output[2] = "unknown"
         /\ normalization.output[3] = <<>>
         /\ normalization.stem = "xyzzy" => normalization.output[1] = "Xyzzy"
         /\ normalization.stem = "qq ww" => normalization.output[1] = "Qq Ww"
         /\ normalization.stem = "tea" => normalization.output[1] = "Tea"

\* 'xyzzy' in lower case, which the title-casing changes
C15_Witness ==
  /\ Normalized("normalize_crop")
  /\ normalization.input = "xyzzy "
  /\ matches_no_rule(normalization.stem)
  /\ normalization.output = <<"Xyzzy", "unknown", <<>>>>

\* C16: normalize_disaster lower-cases its input and puts "_" for " " before
\* any lookup: what it returns is what it returns for the lower-case
\* underscored form, and 'heavy rain' gives 'heavy_rain' with 'flood' among
\* the related disasters.
C16_SpacesToUnderscores ==
  Normalized("normalize_disaster") /\ normalization.stem # "" =>
    /\ normalization.output = normalize_disaster(normalization.stem)
    /\ normalization.stem = "heavy_rain" =>
         /\ normalization.output[1] = "heavy_rain"
         /\ InList("flood", normalization.output[3])

\* 'Heavy Rain' as a person types it
C16_Witness ==
  /\ Normalized("normalize_disaster")
  /\ normalization.input = "Heavy Rain"
  /\ normalization.output[1] = "heavy_rain"
  /\ InList("flood", normalization.output[3])

\* C17: on the empty string and on None both normalizers return
\* (None, 'unknown', []).
C17_EmptyInput ==
  normalization.function \in {"normalize_crop", "normalize_disaster"}
    /\ normalization.input \in {"", None}
  => normalization.output = <<None, "unknown", <<>>>>

\* each normalizer called on the empty string and on None
C17_Witness ==
  /\ normalization.function = "normalize_disaster"
  /\ normalization.input = ""
  /\ normalization.output = <<None, "unknown", <<>>>>

\* the entries of a list that were built from the scheme with the given id
entries_of(list, id) == {k \in DOMAIN list : list[k].id = id}

\* the land size of the query is within the scheme's range
in_land_range(scheme, q) ==
  /\ q.land_size.kind = "finite"
  /\ Get(scheme, "min_land_size", 0) <= q.land_size.value
  /\ q.land_size.value <= Get(scheme, "max_land_size", 999)

\* scheme i of call t's catalog, already looped over, meets the conditions
\* of a full match / of a partial fallback
is_full_match(t, i) ==
  /\ locals[t][i].crop_matched
  /\ locals[t][i].disaster_matched
  /\ in_land_range(catalog_of(t)[i], frame[t].q)
  /\ ~Get(catalog_of(t)[i], "requires_insurance", FALSE) \/ frame[t].q.has_insurance

is_partial_fallback(t, i) ==
  /\ ~is_full_match(t, i)
  /\ locals[t][i].crop_matched \/ locals[t][i].disaster_matched
  /\ in_land_range(catalog_of(t)[i], frame[t].q)

PARTIAL_NOTICE == "partial match - verify eligibility with helpline"

\* C18: each scheme is placed in at most one tier: in eligible_schemes
\* exactly when crop and disaster matched, the land size is in range and the
\* insurance gate is passed; otherwise in fallback_schemes as a partial
\* match exactly when crop or disaster matched and the land size is in
\* range, with match_confidence 'low' and the partial-match notice first.
C18_TierPlacement ==
  \A t \in Calls :
    pc[t] = "loop" =>
      \A i \in DOMAIN locals[t] :
        LET id == catalog_of(t)[i].id
            full == entries_of(eligible_schemes[t], id)
            fallback == entries_of(fallback_schemes[t], id)
            partial == {k \in fallback :
                          fallback_schemes[t][k].reasons[1] = PARTIAL_NOTICE}
        IN /\ Cardinality(full) + Cardinality(fallback) <= 1
           /\ full # {} <=> is_full_match(t, i)
           /\ partial # {} <=> is_partial_fallback(t, i)
           /\ \A k \in partial : fallback_schemes[t][k].match_confidence = "low"

\* a scheme whose crop and disaster both matched and that is a partial
\* fallback for want of insurance, next to a scheme that is a full match,
\* and a scheme that matched and is no partial fallback for its land range
C18_Witness ==
  \E t \in Calls :
    /\ pc[t] = "loop"
    /\ \E i, j, k \in DOMAIN locals[t] :
         /\ is_full_match(t, i)
         /\ is_partial_fallback(t, j)
         /\ locals[t][j].crop_matched /\ locals[t][j].disaster_matched
         /\ locals[t][k].crop_matched /\ ~in_land_range(catalog_of(t)[k], frame[t].q)
         /\ entries_of(fallback_schemes[t], catalog_of(t)[j].id) # {}
         /\ locals[t][j].scheme_result.match_confidence = "high"

\* the entries the always-included branch built from the scheme with the id
generic_entries(t, id) ==
  {k \in entries_of(fallback_schemes[t], id) :
     /\ fallback_schemes[t][k].priority_score = 5
     /\ fallback_schemes[t][k].reasons[1] = "general relief scheme"}

\* C19 as claimed: every scheme with an allowlist id is in fallback_schemes
\* with generic reasons and priority_score 5, matched or not.
C19_AllowlistAlwaysFallback ==
  \A t \in Calls :
    pc[t] = "loop" =>
      \A i \in DOMAIN locals[t] :
        catalog_of(t)[i].id \in {"sdrf", "pmfby", "small_farmer_relief"} =>
          generic_entries(t, catalog_of(t)[i].id) # {}

\* C19 as amended: a scheme with an allowlist id that is neither a full
\* match nor a partial fallback is in fallback_schemes with generic reasons,
\* match_confidence 'low' and priority_score 5, whether or not its crop or
\* disaster matched; one that is a full match or a partial fallback is in
\* that tier only.  No scheme with an allowlist id is dropped.
C19_AllowlistNeverDropped ==
  \A t \in Calls :
    pc[t] = "loop" =>
      \A i \in DOMAIN locals[t] :
        LET id == catalog_of(t)[i].id
        IN id \in {"sdrf", "pmfby", "small_farmer_relief"} =>
             /\ entries_of(eligible_schemes[t], id) \cup entries_of(fallback_schemes[t], id) # {}
             /\ generic_entries(t, id) # {}
                  <=> ~is_full_match(t, i) /\ ~is_partial_fallback(t, i)
             /\ \A k \in generic_entries(t, id) :
                  fallback_schemes[t][k].match_confidence = "low"

\* an allowlist scheme whose crop and disaster matched, kept with score 5
\* because the land size is out of its range
C19_Witness ==
  \E t \in Calls :
    /\ pc[t] = "loop"
    /\ \E i \in DOMAIN locals[t] :
         /\ catalog_of(t)[i].id = "small_farmer_relief"
         /\ locals[t][i].crop_matched /\ locals[t][i].disaster_matched
         /\ locals[t][i].scheme_result.priority_score > 5
         /\ generic_entries(t, "small_farmer_relief") # {}

\* the ids of the schemes of call t's catalog that are full matches
full_match_ids(t) == {catalog_of(t)[i].id : i \in {j \in DOMAIN locals[t] : is_full_match(t, j)}}

SUGGESTION_NOTICE == "you may also qualify for this scheme"

\* C20: with at least one full match the returned list is every full-match
\* scheme, none flagged is_suggestion, followed by at most two schemes of
\* the fallback list, its two highest-scored, each flagged is_suggestion
\* with the 'you may also qualify' reason first.
C20_FullThenTopTwo ==
  \A t \in Calls :
    Rendered(t) /\ full_match_ids(t) # {} =>
      LET n_full == Cardinality(full_match_ids(t))
          n == Len(schemes[t])
          appended == (n_full + 1)..n
          fallback == fallback_schemes[t]
      IN /\ n = n_full + Min(2, Len(fallback))
         /\ {schemes[t][k].id : k \in 1..n_full} = full_match_ids(t)
         /\ \A k \in 1..n_full : ~suggested(schemes[t][k])
         /\ \A k \in appended :
              /\ suggested(schemes[t][k])
              /\ schemes[t][k].reasons[1] = SUGGESTION_NOTICE
              /\ \E f \in DOMAIN fallback :
                   /\ fallback[f].id = schemes[t][k].id
                   /\ fallback[f].priority_score = schemes[t][k].priority_score
                   /\ schemes[t][k].reasons = <<SUGGESTION_NOTICE>> \o fallback[f].reasons
         /\ \A k, m \in appended : k # m => schemes[t][k].id # schemes[t][m].id
         /\ \A f \in DOMAIN fallback :
              (\A k \in appended : schemes[t][k].id # fallback[f].id) =>
                \A k \in appended : schemes[t][k].priority_score >= fallback[f].priority_score

\* two full matches, and four fallback schemes of which the two appended
\* score more than one left out
C20_Witness ==
  \E t \in Calls :
    /\ Rendered(t)
    /\ Cardinality(full_match_ids(t)) = 2
    /\ Len(fallback_schemes[t]) = 4
    /\ Len(schemes[t]) = 4
    /\ suggested(schemes[t][3]) /\ suggested(schemes[t][4])
    /\ \E f \in DOMAIN fallback_schemes[t] :
         fallback_schemes[t][f].priority_score < schemes[t][4].priority_score

\* the entries built from the scheme with the given id in the full-match
\* list of call t and among the full matches it returned
full_entries(t, id) ==
  {eligible_schemes[t][k] : k \in entries_of(eligible_schemes[t], id)}
    \cup {schemes[t][k] : k \in {j \in entries_of(schemes[t], id) : ~suggested(schemes[t][j])}}

\* C21: a full-match scheme has match_confidence 'high' exactly when
\* crop_score >= 50 and disaster_score >= 50, 'medium' when that fails and
\* one of the two is >= 35, 'low' otherwise; a scheme matched through
\* 'All Crops' and 'general' only is 'low'.
C21_FullMatchConfidence ==
  \A t \in Calls :
    Called(t) =>
      \A i \in DOMAIN locals[t] :
        is_full_match(t, i) =>
          LET both == locals[t][i].crop_score >= 50 /\ locals[t][i].disaster_score >= 50
              either == locals[t][i].crop_score >= 35 \/ locals[t][i].disaster_score >= 35
          IN /\ full_entries(t, catalog_of(t)[i].id) # {}
             /\ \A r \in full_entries(t, catalog_of(t)[i].id) :
                  /\ r.match_confidence = "high" <=> both
                  /\ r.match_confidence = "medium" <=> ~both /\ either
                  /\ r.match_confidence = "low" <=> ~both /\ ~either
                  /\ r.crop_matched = "All Crops" /\ r.disaster_matched = "General Disaster"
                       => r.match_confidence = "low"

\* a returned list with a full match on one exact axis only ('medium') and
\* a full match through 'All Crops' and 'general' ('low')
C21_Witness ==
  \E t \in Calls :
    /\ Rendered(t)
    /\ \E i, j \in DOMAIN locals[t] :
         /\ is_full_match(t, i) /\ is_full_match(t, j)
         /\ locals[t][i].crop_score = 50 /\ locals[t][i].disaster_score = 35
         /\ \E r \in full_entries(t, catalog_of(t)[i].id) : r.match_confidence = "medium"
         /\ locals[t][j].crop_score = 20 /\ locals[t][j].disaster_score = 20
         /\ \E r \in full_entries(t, catalog_of(t)[j].id) : r.match_confidence = "low"

\* the priority_score of scheme i of call t's catalog as C22 gives it
claimed_priority_score(t, i) ==
  LET scheme == catalog_of(t)[i]
      q == frame[t].q
      required == Get(scheme, "requires_insurance", FALSE)
  IN locals[t][i].crop_score + locals[t][i].disaster_score
       + (IF in_land_range(scheme, q) THEN 10 ELSE 0)
       + (IF q.land_size.kind = "finite" /\ q.land_size.value <= 2 THEN 15 ELSE 0)
       + (IF q.has_insurance /\ required THEN 20
          ELSE IF q.has_insurance /\ ~required THEN 10 ELSE 0)
       + (IF q.damage_percent >= 75 THEN 25
          ELSE IF q.damage_percent >= 50 THEN 15
          ELSE IF q.damage_percent >= 33 THEN 10 ELSE 0)
       + (IF q.has_kcc /\ str_in("kcc", str_lower(scheme.id)) THEN 30 ELSE 0)

\* C22: for a full-match and for a partial-fallback scheme priority_score =
\* crop_score + disaster_score + 10 (land size in range) + 15 (land_size
\* <= 2) + 20 or 10 (insurance held, required or not) + one damage bonus
\* (25, 15, 10 or 0) + 30 (has_kcc and 'kcc' in the id), each axis score
\* being 0, 20, 35 or 50.
C22_PriorityScoreSum ==
  \A t \in Calls :
    Called(t) =>
      \A i \in DOMAIN locals[t] :
        is_full_match(t, i) \/ is_partial_fallback(t, i) =>
          /\ locals[t][i].crop_score \in {0, 20, 35, 50}
          /\ locals[t][i].disaster_score \in {0, 20, 35, 50}
          /\ \A k \in entries_of(eligible_schemes[t], catalog_of(t)[i].id) :
               eligible_schemes[t][k].priority_score = claimed_priority_score(t, i)
          /\ \A k \in entries_of(fallback_schemes[t], catalog_of(t)[i].id) :
               fallback_schemes[t][k].priority_score = claimed_priority_score(t, i)
          /\ \A k \in entries_of(schemes[t], catalog_of(t)[i].id) :
               schemes[t][k].priority_score = claimed_priority_score(t, i)

\* a KCC holder with insurance and severe damage: the scheme with 'KCC' in
\* its id is returned with every bonus but the small-farmer one
C22_Witness ==
  \E t \in Calls :
    /\ Rendered(t)
    /\ frame[t].q.has_kcc /\ frame[t].q.has_insurance
    /\ frame[t].q.damage_percent >= 75
    /\ \E k \in DOMAIN schemes[t] :
         /\ schemes[t][k].id = "KCC_restructure"
         /\ schemes[t][k].priority_score = 20 + 20 + 10 + 10 + 25 + 30


\* C23: a scheme that does not accept all crops and whose crop list
\* contains the normalized crop gets crop_score = 50, siblings listed or
\* not, and a scheme that does not accept all disasters and whose disaster
\* list contains the normalized disaster and a sibling gets
\* disaster_score = 50.
C23_ExactOverRelated ==
  \A t \in Calls :
    Called(t) =>
      \A i \in DOMAIN locals[t] :
        LET scheme == catalog_of(t)[i]
            n == frame[t].n
            scheme_disasters == Get(scheme, "disaster_types", <<>>)
        IN /\ ( /\ ~accepts_all_crops(scheme)
                /\ n.normalized_crop # None
                /\ InList(str_lower(n.normalized_crop),
                          LowerAll(Get(scheme, "eligible_crops", <<>>)))
                => locals[t][i].crop_score = 50 )
           /\ ( /\ ~accepts_all_disasters(scheme)
                /\ n.normalized_disaster # None
                /\ InList(n.normalized_disaster, scheme_disasters)
                /\ \E k \in DOMAIN n.disasters_to_check :
                     /\ n.disasters_to_check[k] # n.normalized_disaster
                     /\ InList(n.disasters_to_check[k], scheme_disasters)
                => locals[t][i].disaster_score = 50 )


\* the lower-case name is, case aside, one of the "crops" of the catalog
is_catalog_crop(name) ==
  LET crops == Get(load_schemes_data(schemes_json), "crops", <<>>)
  IN \E i \in DOMAIN crops : str_lower(crops[i]) = name

\* C24: normalize_crop applies exact, alias, category, fuzzy, unknown in
\* that order and the first rule that applies wins: an input equal, case
\* aside, to a catalog crop returns (title-cased input, 'exact', []) even
\* when it is an alias key ('bajra', 'sorghum', 'moong'), and an alias or
\* category key is never reported as 'fuzzy'.
C24_RuleOrder ==
  Normalized("normalize_crop") /\ normalization.stem # "" =>
    LET name == normalization.stem
        out == normalization.output
    IN /\ out[2] = ( IF is_catalog_crop(name) THEN "exact"
                     ELSE IF HasKey(CROP_ALIASES, name) THEN "alias"
                     ELSE IF HasKey(CROP_CATEGORIES, name) THEN "category"
                     ELSE IF matches_no_rule(name) THEN "unknown"
                     ELSE "fuzzy" )
       /\ is_catalog_crop(name) =>
            out = <<str_title(str_strip(normalization.input)), "exact", <<>>>>
       /\ name \in {"bajra", "sorghum", "moong"} /\ is_catalog_crop(name) =>
            out[1] = str_title(name) /\ out[2] = "exact"
       /\ HasKey(CROP_ALIASES, name) \/ HasKey(CROP_CATEGORIES, name) => out[2] # "fuzzy"

\* 'sorghum', an alias key for Jowar, on a catalog that lists Sorghum
C24_Witness ==
  /\ Normalized("normalize_crop")
  /\ normalization.stem = "sorghum"
  /\ HasKey(CROP_ALIASES, "sorghum")
  /\ is_catalog_crop("sorghum")
  /\ normalization.input = " SORGHUM"
  /\ normalization.output = <<"Sorghum", "exact", <<>>>>


\* C25: normalize_disaster on a key of the disaster alias table, the keys
\* of several words included, returns the key's alias target as canonical
\* value and, as related list, the target's family or the target alone
\* when it has no family.
C25_AliasKeyTarget ==
  normalization.function = "normalize_disaster"
    /\ HasKey(DISASTER_ALIASES, normalization.input)
  => LET target == Lookup(DISASTER_ALIASES, normalization.input)
     IN /\ normalization.output[1] = target
        /\ normalization.output[3] = LookupOr(DISASTER_MAPPING, target, <<target>>)


\* C26: when the query's disaster type is a key of the disaster-family
\* table, the normalized disaster is among the candidates checked against
\* every scheme, and a scheme that does not accept all disasters and whose
\* disaster_types contains it is disaster-matched with disaster_score = 50.
C26_OwnKeyAmongCandidates ==
  \A t \in Calls :
    Called(t) /\ HasKey(DISASTER_MAPPING, frame[t].q.disaster_type) =>
      /\ frame[t].n.normalized_disaster = frame[t].q.disaster_type
      /\ InList(frame[t].n.normalized_disaster, frame[t].n.disasters_to_check)
      /\ \A i \in DOMAIN locals[t] :
           /\ ~accepts_all_disasters(catalog_of(t)[i])
           /\ InList(frame[t].q.disaster_type, Get(catalog_of(t)[i], "disaster_types", <<>>))
           => locals[t][i].disaster_matched /\ locals[t][i].disaster_score = 50


\* the returned entries built from a catalog scheme by the generic rung
generic_returned(t) ==
  {k \in DOMAIN schemes[t] :
     Get(schemes[t][k], "is_fallback", FALSE) /\ schemes[t][k].id # "contact_helpline"}

\* C27: every catalog scheme returned flagged is_fallback has id
\* 'input_subsidy'; a scheme with id sdrf, pmfby or small_farmer_relief is
\* never returned with is_fallback, and whenever the catalog holds one the
\* full-match or the fallback list is not empty.
C27_GenericOnlyInputSubsidy ==
  \A t \in Calls :
    Rendered(t) =>
      /\ \A k \in generic_returned(t) : schemes[t][k].id = "input_subsidy"
      /\ \A k \in DOMAIN schemes[t] :
           schemes[t][k].id \in {"sdrf", "pmfby", "small_farmer_relief"} =>
             ~Get(schemes[t][k], "is_fallback", FALSE)
      /\ (\E i \in DOMAIN catalog_of(t) :
            Get(catalog_of(t)[i], "id", None) \in {"sdrf", "pmfby", "small_farmer_relief"})
           => eligible_schemes[t] # <<>> \/ fallback_schemes[t] # <<>>

\* input_subsidy and a scheme without allowlist id, neither matched: the
\* generic rung returns input_subsidy alone
C27_Witness ==
  \E t \in Calls :
    /\ Rendered(t)
    /\ Len(catalog_of(t)) = 2
    /\ eligible_schemes[t] = <<>> /\ fallback_schemes[t] = <<>>
    /\ Len(schemes[t]) = 1
    /\ generic_returned(t) = {1}
    /\ schemes[t][1].id = "input_subsidy"


\* C28: a returned result with match_confidence 'high' or 'medium' is a
\* full match (crop and disaster matched, land size in range, insurance
\* held when required); every returned partial, always-included, generic
\* or synthetic result has match_confidence 'low'.
C28_ConfidentOnlyFullMatch ==
  \A t \in Calls :
    Rendered(t) =>
      \A k \in DOMAIN schemes[t] :
        LET r == schemes[t][k]
        IN /\ r.match_confidence \in {"high", "medium"} =>
                /\ ~suggested(r) /\ ~Get(r, "is_fallback", FALSE)
                /\ \E i \in DOMAIN locals[t] :
                     catalog_of(t)[i].id = r.id /\ is_full_match(t, i)
           /\ \/ suggested(r)
              \/ Get(r, "is_fallback", FALSE)
              \/ r.id = "contact_helpline"
              \/ full_match_ids(t) = {}
              => r.match_confidence = "low"

\* a full match returned 'high', followed by a suggestion whose crop and
\* disaster both scored 50 and that is returned 'low'
C28_Witness ==
  \E t \in Calls :
    /\ Rendered(t)
    /\ \E k, m \in DOMAIN schemes[t] :
         /\ schemes[t][k].match_confidence = "high" /\ ~suggested(schemes[t][k])
         /\ suggested(schemes[t][m]) /\ schemes[t][m].match_confidence = "low"
         /\ \E j \in DOMAIN locals[t] :
              /\ catalog_of(t)[j].id = schemes[t][m].id
              /\ is_partial_fallback(t, j)
              /\ locals[t][j].scheme_result.match_confidence = "high"


\* the schemes of call t's catalog, already looped over, with the id of the
\* result r
sources_of(t, r) == {i \in DOMAIN locals[t] : catalog_of(t)[i].id = r.id}

\* r was built by the always-included branch, with priority_score 5
forced_to_five(t, r) ==
  /\ r.priority_score = 5
  /\ \E i \in sources_of(t, r) : ~is_full_match(t, i) /\ ~is_partial_fallback(t, i)

\* r was built from a scheme whose crop or disaster matched, land in range
matched_in_range(t, r) ==
  \E i \in sources_of(t, r) : is_full_match(t, i) \/ is_partial_fallback(t, i)

\* C29: a full-match scheme has priority_score >= 50 and a partial-fallback
\* scheme priority_score >= 30; in a returned list no always-included
\* scheme forced to 5 comes before a scheme whose crop or disaster matched
\* with land size in range, and a score-5 scheme is appended as suggestion
\* only if fewer than two partial matches exist.
C29_ScoreFloors ==
  \A t \in Calls :
    Called(t) =>
      /\ \A i \in DOMAIN locals[t] :
           /\ is_full_match(t, i) => locals[t][i].scheme_result.priority_score >= 50
           /\ is_partial_fallback(t, i) => locals[t][i].scheme_result.priority_score >= 30
      /\ \A k \in DOMAIN eligible_schemes[t] : eligible_schemes[t][k].priority_score >= 50
      /\ Rendered(t) =>
           /\ \A k, m \in DOMAIN schemes[t] :
                forced_to_five(t, schemes[t][k]) /\ matched_in_range(t, schemes[t][m])
                  => m < k
           /\ \A k \in DOMAIN schemes[t] :
                suggested(schemes[t][k]) /\ forced_to_five(t, schemes[t][k]) =>
                  Cardinality({i \in DOMAIN locals[t] : is_partial_fallback(t, i)}) < 2

\* full matches returned with two suggestions, the only partial match and
\* after it an always-included scheme
C29_Witness ==
  \E t \in Calls :
    /\ Rendered(t)
    /\ full_match_ids(t) # {}
    /\ Cardinality({i \in DOMAIN locals[t] : is_partial_fallback(t, i)}) = 1
    /\ \E k, m \in DOMAIN schemes[t] :
         /\ k < m
         /\ suggested(schemes[t][k]) /\ suggested(schemes[t][m])
         /\ matched_in_range(t, schemes[t][k])
         /\ forced_to_five(t, schemes[t][m])


\* C30: a crop or disaster input made of whitespace only is treated like an
\* unmatched input: normalize_crop and normalize_disaster return match_type
\* 'unknown' for it, never a 'fuzzy' match.
C30_BlankIsUnknown ==
  normalization.function \in {"normalize_crop", "normalize_disaster"}
    /\ normalization.stem = ""
    /\ normalization.input # ""
  => normalization.output[2] = "unknown" /\ normalization.output[2] # "fuzzy"

=============================================================================
